---- MODULE Spec2Model ----
(***************************************************************************)
(* Model of shelter's "runserver" management command                       *)
(* (shelter/commands/runserver.py): the master process that binds the      *)
(* listening sockets of every configured interface, creates the worker     *)
(* descriptors, runs the worker pool under a restart budget, and the       *)
(* Tornado worker processes with their SIGINT handler and their periodic   *)
(* parent-PID check.                                                       *)
(*                                                                         *)
(* shelter.core.processes (Worker, start_workers) is not part of the       *)
(* sources at hand; the supervisor actions below follow the written        *)
(* specification of the pool (sections 4.3, 5 and 7).                      *)
(***************************************************************************)
EXTENDS Integers, Sequences, FiniteSets, TLC

\* ------------------------------------------------------------ bounds
MaxInterfaces == 2
MaxProcesses == 2
\* the number of cores of the host
MaxCpu == 2
\* stands for the max_restarts=100 command() passes to start_workers
MaxRestarts == 2
MaxInflight == 1
\* largest pool whose run is explored
MaxWorkers == 2

VARIABLES
    interfaces,    \* the configured interfaces command() has still to handle
    pc,            \* where the master process is
    next_app,      \* index of the next interface command() hands to init_workers
    sockets,       \* sockets[i]: how often interface i's sockets were bound
    workers,       \* self.workers: the Worker descriptors, in order
    proc,          \* proc[w]: the process of descriptor w
    active,        \* descriptors the supervisor still monitors
    budget,        \* the shared restart budget
    respawns,      \* history: processes spawned to replace a crashed one
    crashes,       \* history: abrupt exits the supervisor has handled in run()
    interrupted    \* history: descriptors whose process was live when the
                   \* master was interrupted

vars == <<interfaces, pc, next_app, sockets, workers,
          proc, active, budget, respawns, crashes, interrupted>>

\* ------------------------------------------------------------ configuration
\* start_workers(self.workers, max_restarts=...)
max_restarts == MaxRestarts

\* tornado.process.cpu_count()
cpu_count == MaxCpu

NoPort == 0
Ports == {NoPort, 8080}
NoPath == ""
Paths == {NoPath, "/tmp/x.sock"}
MasterPid == "master"
InitPid == "init"

InterfaceSettings ==
    [port : Ports, unix_socket : Paths, processes : 0..MaxProcesses]

\* ------------------------------------------------------------ worker process
\* A process that does not exist (descriptor created, process not started).
NoProcess ==
    [pc |-> "none", args |-> <<>>, ready |-> FALSE, accepting |-> FALSE,
     handler |-> FALSE, periodic |-> FALSE, pending_stop |-> FALSE,
     loop_stopped |-> FALSE, trigger |-> "none", exit |-> "none",
     inflight |-> 0, asked_while_accepting |-> FALSE]

Live(p) == p.pc \in {"setup", "bound", "registered", "ready", "loop"}
Stopped(p) == p.pc = "exited"
Stopping(p) == Live(p) /\ p.trigger # "none"
Running(p) == p.pc = "loop" /\ p.trigger = "none"
Starting(p) ==
    p.pc \in {"setup", "bound", "registered", "ready"} /\ p.trigger = "none"

\* Variant of get_worker_instance: the process is not given the descriptor's
\* parent pid.
get_worker_instance_other_args(args) ==
    [NoProcess EXCEPT !.pc = "new", !.args = [args EXCEPT !.parent_pid = "none"],
                      !.ready = TRUE]

\* multiprocessing.Process(target=tornado_worker, args=args); inst.ready = True
get_worker_instance(args) ==
    [NoProcess EXCEPT !.pc = "new", !.args = args, !.ready = TRUE]

\* os.getppid() in a worker: the master while it lives, else the process
\* that adopted the orphan.
MasterAlive == pc \in {"init", "run", "stopping"}

\* Variant of getppid: the worker's own pid is taken (os.getpid()).
getpid == "worker"

getppid == IF MasterAlive THEN MasterPid ELSE InitPid

\* http_server.stop(): the server's sockets are taken off the loop.
http_server_stop(p) == [p EXCEPT !.accepting = FALSE]

\* IOLoop.instance().add_callback(IOLoop.instance().stop): the stop of the
\* loop is queued; asked_while_accepting records a request made while the
\* server still accepts.
add_callback_stop(p) ==
    [p EXCEPT !.pending_stop = TRUE,
              !.asked_while_accepting = @ \/ p.accepting]

\* A stop trigger of the given kind ("sigint", "orphan") has run its stop
\* sequence in p: trigger is the kind that put the worker into Stopping.
fired(p, kind) == [p EXCEPT !.trigger = IF @ = "none" THEN kind ELSE @]

\* Variant of sigint_handler: the handler does nothing.
sigint_handler_ignores(p) == p

\* Variant of sigint_handler: the loop is stopped, the HTTP server is not.
sigint_handler_keeps_server(p) ==
    [p EXCEPT !.pending_stop = TRUE,
              !.trigger = IF p.trigger = "none" THEN "sigint" ELSE p.trigger]

\* Variant of sigint_handler: the loop is asked to stop before the server
\* is stopped.
sigint_handler_loop_first(p) ==
    fired(http_server_stop(add_callback_stop(p)), "sigint")

\* sigint_handler: http_server.stop(), then
\* IOLoop.instance().add_callback(IOLoop.instance().stop)
sigint_handler(p) == fired(add_callback_stop(http_server_stop(p)), "sigint")

\* Variant of stop_child: the comparison is the wrong way round.
stop_child_equal(p, ppid) ==
    IF ppid = p.args.parent_pid
    THEN [p EXCEPT !.accepting = FALSE,
                   !.pending_stop = TRUE,
                   !.trigger = IF p.trigger = "none" THEN "orphan" ELSE p.trigger]
    ELSE p

\* Variant of stop_child: the parent pid is not compared.
stop_child_always(p, ppid) ==
    fired(add_callback_stop(http_server_stop(p)), "orphan")

\* stop_child(http_server, parent_pid), the PeriodicCallback's job:
\* on a changed parent pid http_server.stop(), then
\* IOLoop.instance().add_callback(IOLoop.instance().stop)
stop_child(p, ppid) ==
    IF ppid # p.args.parent_pid
    THEN fired(add_callback_stop(http_server_stop(p)), "orphan")
    ELSE p

\* The process is gone: what is left of it is how it ended and, unless it
\* crashed, which stop trigger had fired in it.
exited(p, how) ==
    [NoProcess EXCEPT !.pc = "exited", !.exit = how, !.args = p.args,
                      !.ready = p.ready,
                      !.trigger = IF how = "crash" THEN "none" ELSE p.trigger]

\* The exit statuses the supervisor sees as abrupt (non-zero).
Abrupt == {"crash", "KeyboardInterrupt"}

\* Variant of deliver_sigint: the handler serves the first SIGINT only, the
\* default handler is back for the next one.
deliver_sigint_once(p) ==
    IF ~Live(p) THEN p
    ELSE IF p.handler /\ p.trigger = "none" THEN sigint_handler(p)
    ELSE exited(p, "KeyboardInterrupt")

\* SIGINT arrives at a worker process: sigint_handler runs once line 65 has
\* registered it; before that Python's default handler raises
\* KeyboardInterrupt in tornado_worker and the process ends with a traceback.
deliver_sigint(p) ==
    IF ~Live(p) THEN p
    ELSE IF p.handler THEN sigint_handler(p)
    ELSE exited(p, "KeyboardInterrupt")

\* ------------------------------------------------------------ master: init
\* Variant of effective_processes: the test is off by one.
effective_processes_off_by_one(interface) ==
    IF interface.processes <= 1 THEN cpu_count ELSE interface.processes

\* processes = interface.processes, or cpu_count() when that is <= 0
effective_processes(interface) ==
    IF interface.processes <= 0 THEN cpu_count ELSE interface.processes

\* The socket set a bind_sockets / bind_unix_socket call for interface i
\* returns: the n-th set bound for that interface.
socket_set(i, n) == [interface |-> i, binding |-> n]

\* Worker(name=name, factory=get_worker_instance,
\*        args=(tornado_app, sockets, self.pid))
Worker(i, socks) ==
    [name |-> Head(interfaces).name, factory |-> "get_worker_instance",
     args |-> [tornado_app |-> i, sockets |-> socks, parent_pid |-> MasterPid]]

\* Variant of init_workers: the descriptors are appended before the branch
\* that binds or raises.
init_workers_appends_first(i, bind_ok) ==
    LET interface == Head(interfaces)
        processes == effective_processes(interface)
        port == interface.port
        unix_socket == interface.unix_socket
        bound == [sockets EXCEPT ![i] = @ + 1]
        appended == workers \o [k \in 1..processes |->
                                  Worker(i, socket_set(i, sockets[i] + 1))]
    IN  IF port # NoPort /\ unix_socket # NoPath
        THEN [raised |-> "ValueError", sockets |-> sockets, workers |-> appended]
        ELSE IF port # NoPort \/ unix_socket # NoPath
        THEN IF bind_ok
             THEN [raised |-> "none", sockets |-> bound, workers |-> appended]
             ELSE [raised |-> "BindError", sockets |-> sockets, workers |-> appended]
        ELSE [raised |-> "ValueError", sockets |-> sockets, workers |-> appended]

\* Variant of init_workers: the socket is bound inside the loop that
\* creates the descriptors, once for each of them.
init_workers_binds_each(i, bind_ok) ==
    LET interface == Head(interfaces)
        processes == effective_processes(interface)
        port == interface.port
        unix_socket == interface.unix_socket
        bound == [sockets EXCEPT ![i] = @ + processes]
        appended == workers \o [k \in 1..processes |->
                                  Worker(i, socket_set(i, sockets[i] + k))]
    IN  IF port # NoPort /\ unix_socket # NoPath
        THEN [raised |-> "ValueError", sockets |-> sockets, workers |-> workers]
        ELSE IF port # NoPort \/ unix_socket # NoPath
        THEN IF bind_ok
             THEN [raised |-> "none", sockets |-> bound, workers |-> appended]
             ELSE [raised |-> "BindError", sockets |-> sockets, workers |-> workers]
        ELSE [raised |-> "ValueError", sockets |-> sockets, workers |-> workers]

\* Variant of init_workers: the port is looked at before the check that
\* both are set.
init_workers_binds_first(i, bind_ok) ==
    LET interface == Head(interfaces)
        processes == effective_processes(interface)
        port == interface.port
        unix_socket == interface.unix_socket
        bound == [sockets EXCEPT ![i] = @ + 1]
        appended == workers \o [k \in 1..processes |->
                                  Worker(i, socket_set(i, sockets[i] + 1))]
    IN  IF port # NoPort
        THEN IF bind_ok
             THEN [raised |-> "none", sockets |-> bound, workers |-> appended]
             ELSE [raised |-> "BindError", sockets |-> sockets, workers |-> workers]
        ELSE IF unix_socket # NoPath
        THEN IF bind_ok
             THEN [raised |-> "none", sockets |-> bound, workers |-> appended]
             ELSE [raised |-> "BindError", sockets |-> sockets, workers |-> workers]
        ELSE [raised |-> "ValueError", sockets |-> sockets, workers |-> workers]

\* RunServer.init_workers for interface i; bind_ok is whether the operating
\* system lets the socket be bound.  The result is what the call leaves
\* behind: the exception raised ("none" when it returns), the sockets bound
\* and self.workers.
init_workers(i, bind_ok) ==
    LET interface == Head(interfaces)
        processes == effective_processes(interface)
        port == interface.port
        unix_socket == interface.unix_socket
        bound == [sockets EXCEPT ![i] = @ + 1]
        appended == workers \o [k \in 1..processes |->
                                  Worker(i, socket_set(i, sockets[i] + 1))]
    IN  IF port # NoPort /\ unix_socket # NoPath
        THEN [raised |-> "ValueError", sockets |-> sockets, workers |-> workers]
        ELSE IF port # NoPort
        THEN IF bind_ok
             THEN [raised |-> "none", sockets |-> bound, workers |-> appended]
             ELSE [raised |-> "BindError", sockets |-> sockets, workers |-> workers]
        ELSE IF unix_socket # NoPath
        THEN IF bind_ok
             THEN [raised |-> "none", sockets |-> bound, workers |-> appended]
             ELSE [raised |-> "BindError", sockets |-> sockets, workers |-> workers]
        ELSE [raised |-> "ValueError", sockets |-> sockets, workers |-> workers]

\* Variant of command_init: an exception of init_workers is swallowed and
\* the loop goes on with the next interface.
command_init_goes_on(r) ==
    /\ sockets' = r.sockets
    /\ workers' = r.workers
    /\ proc' = proc \o [k \in 1..(Len(r.workers) - Len(workers)) |-> NoProcess]
    /\ pc' = "init" /\ next_app' = next_app + 1
    /\ interfaces' = Tail(interfaces)

\* command(): for tornado_app in get_tornado_apps(...): self.init_workers(...)
\* An exception of init_workers leaves command() at once.
command_init(r) ==
    /\ sockets' = r.sockets
    /\ workers' = r.workers
    /\ proc' = proc \o [k \in 1..(Len(r.workers) - Len(workers)) |-> NoProcess]
    /\ IF r.raised = "none"
       THEN pc' = "init" /\ next_app' = next_app + 1
            /\ interfaces' = Tail(interfaces)
       ELSE pc' = r.raised /\ UNCHANGED <<next_app, interfaces>>

CommandInit ==
    /\ pc = "init"
    /\ interfaces # <<>>
    /\ \E bind_ok \in BOOLEAN : command_init(init_workers(next_app, bind_ok))
    /\ UNCHANGED <<active, budget,
                   respawns, crashes, interrupted>>

\* ------------------------------------------------------------ worker steps
Descriptors == 1..Len(workers)

\* Variant of worker_setup: the server is not given the sockets.
worker_setup_no_sockets(p) == [p EXCEPT !.pc = "bound"]

\* tornado_worker, lines 42-53: process title, logging, HTTPServer(tornado_app),
\* http_server.add_sockets(sockets)
worker_setup(p) == [p EXCEPT !.pc = "bound", !.accepting = TRUE]

\* tornado_worker, lines 55-65: signal.signal(SIGINT, sigint_handler)
worker_register(p) == [p EXCEPT !.pc = "registered", !.handler = TRUE]

\* tornado_worker, lines 67-70: PeriodicCallback(stop_child, 250).start()
worker_start_callback(p) == [p EXCEPT !.pc = "ready", !.periodic = TRUE]

\* tornado_worker, line 73: IOLoop.instance().start()
worker_loop_start(p) == [p EXCEPT !.pc = "loop"]

\* The loop runs the callback add_callback queued: IOLoop.stop()
run_stop_callback(p) == [p EXCEPT !.pending_stop = FALSE, !.loop_stopped = TRUE]

\* Variant of worker_return: the worker ends with KeyboardInterrupt once
\* its loop has stopped.
worker_return_raises(p) == exited(p, "KeyboardInterrupt")

\* IOLoop.start() returns, tornado_worker returns, the process exits with 0.
worker_return(p) == exited(p, "clean")

WorkerSetup(w) ==
    /\ w \in Descriptors
    /\ proc[w].pc = "setup"
    /\ proc' = [proc EXCEPT ![w] = worker_setup(@)]
    /\ UNCHANGED <<interfaces, pc, next_app, sockets,
                   workers, active, budget, respawns, crashes, interrupted>>

WorkerRegister(w) ==
    /\ w \in Descriptors
    /\ proc[w].pc = "bound"
    /\ proc' = [proc EXCEPT ![w] = worker_register(@)]
    /\ UNCHANGED <<interfaces, pc, next_app, sockets,
                   workers, active, budget, respawns, crashes, interrupted>>

WorkerStartCallback(w) ==
    /\ w \in Descriptors
    /\ proc[w].pc = "registered"
    /\ proc' = [proc EXCEPT ![w] = worker_start_callback(@)]
    /\ UNCHANGED <<interfaces, pc, next_app, sockets,
                   workers, active, budget, respawns, crashes, interrupted>>

WorkerLoopStart(w) ==
    /\ w \in Descriptors
    /\ proc[w].pc = "ready"
    /\ proc' = [proc EXCEPT ![w] = worker_loop_start(@)]
    /\ UNCHANGED <<interfaces, pc, next_app, sockets,
                   workers, active, budget, respawns, crashes, interrupted>>

\* The PeriodicCallback fires (every 250 ms while the loop runs; nothing
\* stops stop_callback, and a loop told to stop still runs the timeouts due
\* in its last iteration).
PeriodicCallback(w) ==
    /\ w \in Descriptors
    /\ proc[w].pc = "loop"
    /\ proc[w].periodic
    /\ proc' = [proc EXCEPT ![w] = stop_child(@, getppid)]
    /\ UNCHANGED <<interfaces, pc, next_app, sockets,
                   workers, active, budget, respawns, crashes, interrupted>>

RunStopCallback(w) ==
    /\ w \in Descriptors
    /\ proc[w].pc = "loop"
    /\ proc[w].pending_stop
    /\ proc' = [proc EXCEPT ![w] = run_stop_callback(@)]
    /\ UNCHANGED <<interfaces, pc, next_app, sockets,
                   workers, active, budget, respawns, crashes, interrupted>>

WorkerReturn(w) ==
    /\ w \in Descriptors
    /\ proc[w].pc = "loop"
    /\ proc[w].loop_stopped
    /\ proc' = [proc EXCEPT ![w] = worker_return(@)]
    /\ UNCHANGED <<interfaces, pc, next_app, sockets,
                   workers, active, budget, respawns, crashes, interrupted>>

\* The HTTP server accepts a connection from the shared sockets.
Accept(w) ==
    /\ w \in Descriptors
    /\ proc[w].pc = "loop"
    /\ proc[w].accepting
    /\ ~proc[w].loop_stopped
    /\ proc[w].inflight < MaxInflight
    /\ proc' = [proc EXCEPT ![w].inflight = @ + 1]
    /\ UNCHANGED <<interfaces, pc, next_app, sockets,
                   workers, active, budget, respawns, crashes, interrupted>>

\* A request in flight is answered.
Finish(w) ==
    /\ w \in Descriptors
    /\ proc[w].pc = "loop"
    /\ proc[w].inflight > 0
    /\ proc' = [proc EXCEPT ![w].inflight = @ - 1]
    /\ UNCHANGED <<interfaces, pc, next_app, sockets,
                   workers, active, budget, respawns, crashes, interrupted>>

\* The worker process crashes.
Crash(w) ==
    /\ w \in Descriptors
    /\ Live(proc[w])
    /\ proc' = [proc EXCEPT ![w] = exited(@, "crash")]
    /\ UNCHANGED <<interfaces, pc, next_app, sockets,
                   workers, active, budget, respawns, crashes, interrupted>>

\* SIGINT is sent to the worker process itself.
WorkerSigint(w) ==
    /\ w \in Descriptors
    /\ Live(proc[w])
    /\ proc' = [proc EXCEPT ![w] = deliver_sigint(@)]
    /\ UNCHANGED <<interfaces, pc, next_app, sockets,
                   workers, active, budget, respawns, crashes, interrupted>>

\* ------------------------------------------------------------ supervisor
\* The descriptor's factory is called with the descriptor's args and the
\* process is started.
spawn(w) == [get_worker_instance(workers[w].args) EXCEPT !.pc = "setup"]

\* A stop is issued to every live worker process.
stop_all == [w \in Descriptors |-> deliver_sigint(proc[w])]

\* Variant of observable: the supervisor waits for the workers in the order
\* of the list, one after the other.
observable_in_order(w) == w \in active /\ \A v \in active : w <= v

\* The workers whose exit the supervisor can observe: every monitored one.
observable(w) == w \in active

\* Variant of handle_crash: the respawn is not paid from the budget.
handle_crash_free(w) ==
    /\ crashes' = crashes + 1
    /\ respawns' = respawns + 1
    /\ proc' = [proc EXCEPT ![w] = spawn(w)]
    /\ UNCHANGED <<pc, active, budget>>

\* Variant of handle_crash: after a crash the whole pool is started anew.
handle_crash_restarts_pool(w) ==
    /\ crashes' = crashes + 1
    /\ IF budget > 0
       THEN /\ budget' = budget - 1
            /\ respawns' = respawns + 1
            /\ proc' = [v \in Descriptors |-> spawn(v)]
            /\ UNCHANGED <<pc, active>>
       ELSE /\ pc' = "PoolExhausted"
            /\ proc' = stop_all
            /\ active' = {}
            /\ UNCHANGED <<budget, respawns>>

\* Variant of handle_crash: one decrement pays for the respawn of every
\* worker found crashed.
handle_crash_batch(w) ==
    /\ crashes' = crashes + 1
    /\ IF budget > 0
       THEN /\ budget' = budget - 1
            /\ respawns' = respawns + 1
            /\ proc' = [v \in Descriptors |->
                          IF v \in active /\ proc[v].pc = "exited"
                             /\ proc[v].exit \in Abrupt
                          THEN spawn(v) ELSE proc[v]]
            /\ UNCHANGED <<pc, active>>
       ELSE /\ pc' = "PoolExhausted"
            /\ proc' = stop_all
            /\ active' = {}
            /\ UNCHANGED <<budget, respawns>>

\* start_workers: an abrupt exit of descriptor w is observed.  With budget
\* left the budget is decremented and a fresh process is spawned for w;
\* without, every remaining worker is stopped and the pool fails.
handle_crash(w) ==
    /\ crashes' = crashes + 1
    /\ IF budget > 0
       THEN /\ budget' = budget - 1
            /\ respawns' = respawns + 1
            /\ proc' = [proc EXCEPT ![w] = spawn(w)]
            /\ UNCHANGED <<pc, active>>
       ELSE /\ pc' = "PoolExhausted"
            /\ proc' = stop_all
            /\ active' = {}
            /\ UNCHANGED <<budget, respawns>>

\* start_workers: a clean exit of descriptor w is observed.
handle_clean_exit(w) ==
    /\ active' = active \ {w}
    /\ UNCHANGED <<pc, proc, budget, respawns, crashes>>

\* command(), lines 104-106: start_workers(self.workers, max_restarts=...)
\* starts the process of every descriptor.
StartWorkers ==
    /\ pc = "init"
    /\ interfaces = <<>>
    /\ Len(workers) <= MaxWorkers
    /\ pc' = "run"
    /\ proc' = [w \in Descriptors |-> spawn(w)]
    /\ active' = Descriptors
    /\ budget' = max_restarts
    /\ UNCHANGED <<interfaces, next_app, sockets,
                   workers, respawns, crashes, interrupted>>

ReapCrash(w) ==
    /\ pc = "run"
    /\ observable(w)
    /\ proc[w].pc = "exited" /\ proc[w].exit \in Abrupt
    /\ handle_crash(w)
    /\ UNCHANGED <<interfaces, next_app, sockets,
                   workers, interrupted>>

ReapClean(w) ==
    /\ pc = "run"
    /\ observable(w)
    /\ proc[w].pc = "exited" /\ proc[w].exit = "clean"
    /\ handle_clean_exit(w)
    /\ UNCHANGED <<interfaces, next_app, sockets,
                   workers, interrupted>>

\* start_workers has no worker left to monitor and returns.
RunReturns ==
    /\ pc = "run"
    /\ active = {}
    /\ pc' = "returned"
    /\ UNCHANGED <<interfaces, next_app, sockets,
                   workers, proc, active, budget, respawns, crashes, interrupted>>

\* SIGINT arrives at the master during start_workers: every live worker is
\* signalled and the supervisor waits for each of them to exit.
MasterInterrupt ==
    /\ pc = "run"
    /\ pc' = "stopping"
    /\ proc' = stop_all
    /\ interrupted' = {w \in Descriptors : Live(proc[w])}
    /\ UNCHANGED <<interfaces, next_app, sockets,
                   workers, active, budget, respawns, crashes>>

\* While stopping, an exited worker is waited for and not replaced.
ReapStopping(w) ==
    /\ pc = "stopping"
    /\ observable(w)
    /\ proc[w].pc = "exited"
    /\ active' = active \ {w}
    /\ UNCHANGED <<interfaces, pc, next_app, sockets,
                   workers, proc, budget, respawns, crashes, interrupted>>

\* Variant of command_returns: KeyboardInterrupt is not caught.
command_returns_raises == pc' = "KeyboardInterrupt"

\* command(), lines 107-108: except KeyboardInterrupt: pass
command_returns == pc' = "returned"

CommandReturns ==
    /\ pc = "stopping"
    /\ active = {}
    /\ command_returns
    /\ UNCHANGED <<interfaces, next_app, sockets,
                   workers, proc, active, budget, respawns, crashes, interrupted>>

\* The master process is killed (SIGKILL, out of memory, ...): nothing
\* monitors the workers any more.
MasterKilled ==
    /\ pc \in {"run", "stopping"}
    /\ pc' = "killed"
    /\ active' = {}
    /\ UNCHANGED <<interfaces, next_app, sockets,
                   workers, proc, budget, respawns, crashes, interrupted>>

\* ------------------------------------------------------------ specification
Init ==
    /\ \E n \in 1..MaxInterfaces :
         \E cfg \in [1..n -> InterfaceSettings] :
           interfaces = [i \in 1..n |->
                           [name |-> i, port |-> cfg[i].port,
                            unix_socket |-> cfg[i].unix_socket,
                            processes |-> cfg[i].processes]]
    /\ pc = "init"
    /\ next_app = 1
    /\ sockets = [i \in 1..Len(interfaces) |-> 0]
    /\ workers = <<>>
    /\ proc = <<>>
    /\ active = {}
    /\ budget = max_restarts
    /\ respawns = 0
    /\ crashes = 0
    /\ interrupted = {}

\* What a worker does next by itself, short of leaving the stopped loop.
WorkerProgress(w) ==
    \/ WorkerSetup(w)
    \/ WorkerRegister(w)
    \/ WorkerStartCallback(w)
    \/ WorkerLoopStart(w)
    \/ PeriodicCallback(w)
    \/ RunStopCallback(w)

WorkerStep(w) ==
    \/ WorkerProgress(w)
    \/ WorkerReturn(w)

WorkerEnvironment(w) ==
    \/ Accept(w)
    \/ Finish(w)
    \/ Crash(w)
    \/ WorkerSigint(w)

Supervise ==
    \/ \E w \in 1..MaxWorkers : ReapCrash(w)
    \/ \E w \in 1..MaxWorkers : ReapClean(w)
    \/ \E w \in 1..MaxWorkers : ReapStopping(w)
    \/ RunReturns
    \/ CommandReturns

Next ==
    \/ CommandInit
    \/ StartWorkers
    \/ \E w \in 1..MaxWorkers : WorkerStep(w)
    \/ \E w \in 1..MaxWorkers : WorkerEnvironment(w)
    \/ Supervise
    \/ MasterInterrupt
    \/ MasterKilled

Spec == Init /\ [][Next]_vars

\* The operating system schedules every process and a running IOLoop runs
\* what is due: a worker's next statement, a queued callback, the periodic
\* callback, the return from a stopped loop and the supervisor's handling
\* of an exit are not postponed forever.
FairSpec ==
    /\ Spec
    /\ \A w \in 1..MaxWorkers :
         WF_vars(WorkerProgress(w)) /\ WF_vars(WorkerReturn(w))
    /\ WF_vars(Supervise)

\* ------------------------------------------------------------ properties
AllStopped == \A w \in Descriptors : Stopped(proc[w])

\* C1: the supervisor never respawns more than max_restarts times in total;
\* the budget is one counter for the whole pool, it stays between 0 and
\* max_restarts, every respawn is paid from it, and it never increases.
C1_RestartBudget ==
    /\ [](/\ respawns <= max_restarts
          /\ budget >= 0
          /\ respawns + budget = max_restarts)
    /\ [][budget' <= budget /\ respawns' >= respawns]_vars

\* The whole budget was spent on a pool of several workers, still running.
C1_Witness ==
    /\ pc = "run"
    /\ Len(workers) > 1
    /\ budget = 0
    /\ respawns = max_restarts
    /\ \A w \in Descriptors : Live(proc[w])

\* C2: an abrupt exit handled with the budget at 0 ends the monitoring with
\* PoolExhausted and leaves no worker running that was not told to stop;
\* from then on nothing is respawned and every worker ends Stopped.
C2_PoolExhausted ==
    /\ [][(pc = "run" /\ budget = 0 /\ crashes' = crashes + 1)
            => /\ pc' = "PoolExhausted"
               /\ active' = {}
               /\ \A w \in Descriptors :
                    Live(proc'[w]) => Stopping(proc'[w])]_vars
    /\ [][pc = "PoolExhausted"
            => /\ respawns' = respawns
               /\ \A w \in Descriptors :
                    Stopped(proc[w]) => proc'[w] = proc[w]]_vars
    /\ (pc = "PoolExhausted") ~> AllStopped

\* The pool failed, a worker that was running then has shut down cleanly,
\* and every worker is stopped.
C2_Witness ==
    /\ pc = "PoolExhausted"
    /\ Len(workers) > 1
    /\ AllStopped
    /\ \E w \in Descriptors :
         proc[w].exit = "clean" /\ proc[w].trigger = "sigint"

\* C3: an abrupt exit handled with budget left costs exactly one unit of
\* budget and puts exactly one fresh process in the place of the crashed
\* one, built from the same descriptor (name, factory, args), the monitoring
\* going on; the pool fails only on abrupt exit number max_restarts + 1.
C3_Respawn ==
    /\ [](\A w \in Descriptors :
            proc[w].pc # "none" =>
              /\ proc[w].args = workers[w].args
              /\ workers[w].factory = "get_worker_instance")
    /\ [](pc = "PoolExhausted" =>
            crashes = max_restarts + 1 /\ respawns = max_restarts)
    /\ [][(pc = "run" /\ budget > 0 /\ crashes' = crashes + 1)
            => /\ budget' = budget - 1
               /\ respawns' = respawns + 1
               /\ pc' = "run"
               /\ workers' = workers
               /\ active' = active
               /\ \E w \in active :
                    /\ proc[w].pc = "exited" /\ proc[w].exit \in Abrupt
                    /\ proc'[w].pc = "setup"
                    /\ proc'[w].args = workers[w].args
                    /\ \A v \in Descriptors \ {w} : proc'[v] = proc[v]]_vars

\* Every unit of budget was spent on respawns before the pool failed.
C3_Witness ==
    /\ pc = "PoolExhausted"
    /\ respawns = max_restarts
    /\ crashes = max_restarts + 1
    /\ budget = 0

\* C4: a worker that left its event loop after a stop trigger (interrupt or
\* parent check) has exited cleanly; a cleanly exited worker is never
\* replaced by a new process, handling its exit takes it out of the
\* monitored set without touching the budget, and it is eventually handled.
C4_CleanExit ==
    /\ [](\A w \in Descriptors :
            (Stopped(proc[w]) /\ proc[w].trigger # "none"
               /\ proc[w].exit # "crash") => proc[w].exit = "clean")
    /\ [][\A w \in Descriptors :
            (Stopped(proc[w]) /\ proc[w].exit = "clean")
               => proc'[w] = proc[w]]_vars
    /\ [][\A w \in Descriptors :
            (w \in active /\ w \notin active'
               /\ proc[w].exit = "clean")
               => (budget' = budget /\ respawns' = respawns
                     /\ proc'[w] = proc[w])]_vars
    /\ \A w \in 1..MaxWorkers :
         (w \in active /\ w \in Descriptors /\ proc[w].exit = "clean")
            ~> (w \notin active)

\* An interrupted worker exited cleanly and was taken out of the monitored
\* set, the pool still running with its budget untouched.
C4_Witness ==
    /\ pc = "run"
    /\ budget = max_restarts
    /\ \E w \in Descriptors :
         /\ proc[w].exit = "clean"
         /\ proc[w].trigger = "sigint"
         /\ w \notin active
    /\ \E v \in Descriptors : v \in active /\ Running(proc[v])

\* C5 as stated: after an interrupt of the master during run(), once
\* command() has returned, every worker that was live at the interrupt and
\* did not crash by itself is stopped and went through Stopping.
C5_AsStated ==
    (pc = "returned" /\ interrupted # {}) =>
       \A w \in interrupted :
          /\ Stopped(proc[w])
          /\ proc[w].exit # "crash" => proc[w].trigger # "none"

\* C5, amended: the interrupt of the master signals every live worker; one
\* whose SIGINT handler is registered is Stopping from then on, one that is
\* still starting is ended by KeyboardInterrupt; while the pool stops,
\* nothing is respawned and the budget is untouched; every worker ends
\* Stopped and command() returns normally (unless the master is killed).
C5_MasterInterrupt ==
    /\ [][(pc = "run" /\ pc' = "stopping")
            => \A w \in Descriptors :
                 /\ (Live(proc[w]) /\ proc[w].handler) => Stopping(proc'[w])
                 /\ (Live(proc[w]) /\ ~proc[w].handler)
                      => (Stopped(proc'[w])
                          /\ proc'[w].exit = "KeyboardInterrupt")
                 /\ ~Live(proc[w]) => proc'[w] = proc[w]]_vars
    /\ [][pc = "stopping"
            => /\ budget' = budget
               /\ respawns' = respawns
               /\ pc' \in {"stopping", "returned", "killed"}
               /\ \A w \in Descriptors :
                    Stopped(proc[w]) => proc'[w] = proc[w]]_vars
    /\ [](pc = "returned" =>
            \A w \in interrupted :
               /\ Stopped(proc[w])
               /\ proc[w].exit = "clean" => proc[w].trigger # "none")
    /\ (pc = "stopping") ~> (pc \in {"returned", "killed"} /\ AllStopped)

\* command() returned after an interrupt that found one worker running and
\* one still starting.
C5_Witness ==
    /\ pc = "returned"
    /\ budget = max_restarts
    /\ Cardinality(interrupted) > 1
    /\ \E w \in interrupted :
         proc[w].exit = "clean" /\ proc[w].trigger = "sigint"
    /\ \E w \in interrupted : proc[w].exit = "KeyboardInterrupt"

\* One of TCP port and UNIX socket path is set, not both.
ExactlyOne(interface) ==
    (interface.port # NoPort) # (interface.unix_socket # NoPath)

ConfigurationErrors == {"ValueError", "BindError"}

\* C6: init_workers on an interface with both or neither of port and UNIX
\* socket path raises the configuration error and binds no socket (and
\* appends no descriptor).
C6_ConfigurationError ==
    [][(pc = "init" /\ interfaces # <<>> /\ ~ExactlyOne(Head(interfaces)))
         => /\ pc' = "ValueError"
            /\ sockets' = sockets
            /\ workers' = workers]_vars

\* The second interface has both set: the first one is bound, this one not.
C6_Witness ==
    /\ pc = "ValueError"
    /\ next_app = 2
    /\ Head(interfaces).port # NoPort
    /\ Head(interfaces).unix_socket # NoPath
    /\ sockets[1] = 1
    /\ sockets[2] = 0

\* C7: an init_workers call that returns appends exactly process_count
\* descriptors of its interface when process_count > 0, and exactly as many
\* as cpu_count() reports (the host's cores, 1 or more) when
\* process_count = 0.
C7_WorkerCount ==
    [][(pc = "init" /\ interfaces # <<>> /\ pc' = "init")
         => LET k == Head(interfaces).processes
                n == IF k > 0 THEN k ELSE cpu_count
            IN  /\ Len(workers') = Len(workers) + n
                /\ n >= 1
                /\ SubSeq(workers', 1, Len(workers)) = workers
                /\ \A w \in (Len(workers) + 1)..Len(workers') :
                     /\ workers'[w].name = Head(interfaces).name
                     /\ workers'[w].args.tornado_app = next_app]_vars

\* The first interface got one descriptor on a host with several cores (its
\* process_count is 1), the second got as many as there are cores.
C7_Witness ==
    /\ pc = "init"
    /\ interfaces = <<>>
    /\ cpu_count > 1
    /\ Len(workers) = 1 + cpu_count
    /\ workers[1].name = 1
    /\ \A w \in 2..Len(workers) : workers[w].name = 2

\* C8: a worker process exists only when every configured interface passed
\* its check and was bound; after a failed init_workers no process of any
\* interface exists, and command() does nothing more.
C8_NoPartialPool ==
    /\ []((\E w \in Descriptors : proc[w].pc # "none")
            => (/\ pc \notin ConfigurationErrors
                /\ \A i \in DOMAIN sockets : sockets[i] = 1))
    /\ [][pc \notin ConfigurationErrors]_vars

\* The second interface failed after the first one got its descriptors.
C8_Witness ==
    /\ pc \in ConfigurationErrors
    /\ Len(workers) > 0
    /\ sockets[1] = 1
    /\ \A w \in Descriptors : proc[w].pc = "none"

\* The parent pid a live worker sees is not the one it was created with.
Orphaned(p) == Live(p) /\ getppid # p.args.parent_pid

\* C9: the periodic check of a Running worker whose parent pid differs from
\* the captured one leaves the worker Stopping, whatever the number of
\* requests in flight, and that check is not postponed forever.
C9_OrphanStops ==
    /\ [][\A w \in Descriptors :
            (Running(proc[w]) /\ Orphaned(proc[w]) /\ PeriodicCallback(w))
               => /\ Stopping(proc'[w])
                  /\ ~proc'[w].accepting
                  /\ proc'[w].pending_stop
                  /\ proc'[w].inflight = proc[w].inflight]_vars
    /\ \A w \in 1..MaxWorkers :
         (w \in Descriptors /\ Running(proc[w]) /\ Orphaned(proc[w]))
            ~> (w \in Descriptors /\ ~Running(proc[w]))

\* An orphaned worker is Stopping because of the parent check, a request
\* still in flight.
C9_Witness ==
    \E w \in Descriptors :
       /\ Stopping(proc[w])
       /\ proc[w].trigger = "orphan"
       /\ proc[w].inflight > 0

\* C10 as stated: SIGINT sent to a live worker, whenever, leaves that worker
\* shutting down gracefully (server stopped, loop stop queued) and changes
\* no other worker.
C10_AsStated ==
    [][\A w \in Descriptors :
         WorkerSigint(w)
            => /\ Stopping(proc'[w])
               /\ ~proc'[w].accepting
               /\ proc'[w].pending_stop
               /\ \A v \in Descriptors \ {w} : proc'[v] = proc[v]]_vars

\* C10, amended: SIGINT sent to a worker that has registered its handler
\* leaves that worker Stopping with its server stopped and the loop stop
\* queued, changes no other worker, and the worker ends Stopped, cleanly
\* unless it crashes; SIGINT sent before the handler is registered ends the
\* worker with KeyboardInterrupt.
C10_WorkerSigint ==
    /\ [][\A w \in Descriptors :
            (WorkerSigint(w) /\ proc[w].handler)
               => /\ Stopping(proc'[w])
                  /\ ~proc'[w].accepting
                  /\ proc'[w].pending_stop]_vars
    /\ [][\A w \in Descriptors :
            (WorkerSigint(w) /\ ~proc[w].handler)
               => (Stopped(proc'[w])
                   /\ proc'[w].exit = "KeyboardInterrupt")]_vars
    /\ [][\A w \in Descriptors :
            WorkerSigint(w)
               => \A v \in Descriptors \ {w} : proc'[v] = proc[v]]_vars
    /\ [](\A w \in Descriptors :
            (Stopped(proc[w]) /\ proc[w].trigger = "sigint")
               => proc[w].exit \in {"clean", "crash"})
    /\ \A w \in 1..MaxWorkers :
         (w \in Descriptors /\ Stopping(proc[w]))
            ~> (w \in Descriptors /\ Stopped(proc[w]))

\* One worker shut down cleanly after its SIGINT while the other one went on
\* running under a living master.
C10_Witness ==
    /\ pc = "run"
    /\ \E w \in Descriptors :
         /\ proc[w].exit = "clean"
         /\ proc[w].trigger = "sigint"
         /\ \E v \in Descriptors \ {w} : Running(proc[v])

\* C11: on either stop trigger the worker stops its server before it asks
\* the loop to stop: the request is never made, never pending and the loop
\* never stopped while the server of that worker still accepts.
C11_ServerBeforeLoop ==
    /\ [](\A w \in Descriptors :
            /\ ~proc[w].asked_while_accepting
            /\ (proc[w].pending_stop \/ proc[w].loop_stopped)
                  => ~proc[w].accepting)
    /\ [][\A w \in Descriptors :
            (proc[w].trigger = "none" /\ proc'[w].trigger # "none")
               => (~proc'[w].accepting /\ proc'[w].pending_stop
                   /\ ~proc'[w].loop_stopped)]_vars
    /\ [][\A w \in Descriptors :
            (~proc[w].loop_stopped /\ proc'[w].loop_stopped)
               => (~proc[w].accepting /\ proc[w].trigger # "none")]_vars

\* The loop of one worker was stopped after an interrupt, the loop of
\* another one after the parent check, both having served before.
C11_Witness ==
    \E w, v \in Descriptors :
       /\ proc[w].trigger = "sigint" /\ proc[w].loop_stopped
       /\ proc[v].trigger = "orphan" /\ proc[v].loop_stopped
       /\ ~proc[w].accepting /\ ~proc[v].accepting

\* C12 as stated: in a worker that is Stopping no signal handler is
\* registered and the periodic parent check does not fire any more (so it
\* never acts on a worker an interrupt has stopped).
C12_AsStated ==
    [][\A w \in Descriptors :
         Stopping(proc[w])
            => (~WorkerRegister(w) /\ ~PeriodicCallback(w))]_vars

\* C12, amended: the SIGINT handler is registered before any stop trigger
\* can fire, never after; the periodic check is not cancelled and may fire
\* in a Stopping worker, where it leaves the worker Stopping with its server
\* stopped, its requests in flight and its loop as they were, and asks the
\* loop to stop again only when the parent pid has changed.
C12_LateCheck ==
    /\ [][\A w \in Descriptors :
            (~proc[w].handler /\ proc'[w].handler)
               => (proc[w].trigger = "none" /\ proc'[w].trigger = "none")]_vars
    /\ [][\A w \in Descriptors :
            (Stopping(proc[w]) /\ PeriodicCallback(w))
               => /\ Stopping(proc'[w])
                  /\ ~proc'[w].accepting
                  /\ proc'[w].trigger = proc[w].trigger
                  /\ proc'[w].loop_stopped = proc[w].loop_stopped
                  /\ proc'[w].inflight = proc[w].inflight
                  /\ Orphaned(proc[w])
                  /\ proc'[w].pending_stop]_vars

\* The master gone, the worker an interrupt had put into Stopping has the
\* stop of its loop queued again although its loop was told to stop: the
\* state the parent check leaves when it fires that late.
C12_Witness ==
    \E w \in Descriptors :
       /\ Stopping(proc[w])
       /\ proc[w].trigger = "sigint"
       /\ Orphaned(proc[w])
       /\ proc[w].loop_stopped
       /\ proc[w].pending_stop

\* The lifecycle state of a process, in the order of the state machine
\* (0: no process yet).
Phase(p) ==
    IF Stopped(p) THEN 4
    ELSE IF Stopping(p) THEN 3
    ELSE IF Running(p) THEN 2
    ELSE IF Starting(p) THEN 1
    ELSE 0

\* C13: a worker process only moves forward through Starting, Running,
\* Stopping, Stopped (an abrupt exit leads to Stopped from anywhere); a
\* Stopped process stays as it is, only a new process may take its place;
\* a Stopped process serves nothing; Running is entered only from Starting
\* and with the server attached to the sockets.
C13_Lifecycle ==
    /\ [][\A w \in Descriptors :
            Live(proc[w]) => Phase(proc'[w]) >= Phase(proc[w])]_vars
    /\ [][\A w \in Descriptors :
            Stopped(proc[w])
               => (proc'[w] = proc[w] \/ proc'[w].pc = "setup")]_vars
    /\ [](\A w \in Descriptors :
            Stopped(proc[w])
               => (~proc[w].accepting /\ proc[w].inflight = 0))
    /\ [][\A w \in Descriptors :
            Stopped(proc[w]) => (~Accept(w) /\ ~Finish(w))]_vars
    /\ [](\A w \in Descriptors : Running(proc[w]) => proc[w].accepting)
    /\ [][\A w \in Descriptors :
            (Running(proc'[w]) /\ ~Running(proc[w]))
               => (Starting(proc[w]) /\ proc[w].accepting)]_vars

\* An orphaned worker went through all four states: it ran, the parent
\* check stopped it, and it exited cleanly.
C13_Witness ==
    /\ pc = "killed"
    /\ \E w \in Descriptors :
         /\ Stopped(proc[w])
         /\ proc[w].exit = "clean"
         /\ proc[w].trigger = "orphan"

\* The interface a descriptor was created for.
InterfaceOf(w) == workers[w].args.tornado_app

\* C14: the socket set of an interface is bound once, by the init_workers
\* call that creates the interface's descriptors and before it creates
\* them; every descriptor of the interface and every process started from
\* it, respawned ones too, holds that one set; nothing binds after the
\* pool has been populated.
C14_SocketsBoundOnce ==
    /\ [](\A i \in DOMAIN sockets :
            /\ sockets[i] <= 1
            /\ i < next_app => sockets[i] = 1)
    /\ [](\A w \in Descriptors :
            /\ sockets[InterfaceOf(w)] = 1
            /\ workers[w].args.sockets = socket_set(InterfaceOf(w), 1)
            /\ proc[w].pc # "none"
                  => proc[w].args.sockets = workers[w].args.sockets)
    /\ [][\A i \in DOMAIN sockets :
            sockets'[i] # sockets[i]
               => /\ pc = "init"
                  /\ \A w \in Descriptors : InterfaceOf(w) # i
                  /\ \A w \in Descriptors : proc[w].pc = "none"]_vars
    /\ [][pc # "init" => (sockets' = sockets /\ workers' = workers)]_vars

\* A pool over two interfaces runs after a respawn, each worker holding the
\* socket set of its own interface.
C14_Witness ==
    /\ pc = "run"
    /\ respawns > 0
    /\ Len(workers) = 2
    /\ workers[1].args.sockets # workers[2].args.sockets
    /\ \A w \in Descriptors :
         Live(proc[w]) /\ proc[w].args.sockets = socket_set(InterfaceOf(w), 1)

\* The abrupt exit of descriptor w waits for the supervisor.
CrashPending(w) ==
    /\ w \in active
    /\ proc[w].pc = "exited"
    /\ proc[w].exit \in Abrupt

\* C15: the supervisor handles one abrupt exit at a time, however many are
\* waiting: one step charges one crash, with budget left it takes one unit
\* and starts one process, for that descriptor, and every other crashed
\* worker stays as it is, still to be charged; a process is started in the
\* place of a dead one only together with a decrement; the budget moves
\* by single units and not below 0.
C15_AtomicRestart ==
    /\ [][crashes' # crashes
            => \E w \in Descriptors :
                 /\ pc = "run"
                 /\ CrashPending(w)
                 /\ crashes' = crashes + 1
                 /\ \A v \in Descriptors \ {w} :
                      Stopped(proc[v]) => proc'[v] = proc[v]
                 /\ IF budget > 0
                    THEN /\ budget' = budget - 1
                         /\ proc'[w].pc = "setup"
                         /\ active' = active
                    ELSE /\ budget' = budget
                         /\ proc'[w] = proc[w]
                         /\ pc' = "PoolExhausted"]_vars
    /\ [][\A w \in Descriptors :
            (Stopped(proc[w]) /\ proc'[w] # proc[w])
               => /\ CrashPending(w)
                  /\ budget > 0
                  /\ budget' = budget - 1
                  /\ crashes' = crashes + 1]_vars
    /\ [][budget' # budget
            => /\ budget' = budget - 1
               /\ budget' >= 0
               /\ Cardinality({w \in Descriptors :
                                 Stopped(proc[w]) /\ Live(proc'[w])}) = 1]_vars

\* Two workers had crashed at the same time and the last unit of budget
\* has paid for the respawn of one of them; the other crash still waits.
C15_Witness ==
    /\ pc = "run"
    /\ budget = 0
    /\ respawns = max_restarts
    /\ \E w, v \in Descriptors :
         /\ w # v
         /\ proc[w].pc = "setup"
         /\ CrashPending(v)

\* C16: while the supervisor monitors the pool, the exit of any monitored
\* worker can be handled at once, whatever the other workers do, and is
\* handled eventually: the worker leaves the monitored set or a new process
\* takes its place.
C16_AnyExitObserved ==
    /\ [](\A w \in Descriptors :
            (w \in active /\ Stopped(proc[w]))
               => /\ pc = "run" => ENABLED (ReapCrash(w) \/ ReapClean(w))
                  /\ pc = "stopping" => ENABLED ReapStopping(w))
    /\ \A w \in 1..MaxWorkers :
         (w \in Descriptors /\ w \in active /\ Stopped(proc[w]))
            ~> (w \notin active \/ (w \in Descriptors /\ Live(proc[w])))

\* The exit of the second worker was handled while the first worker, the
\* process the pool was started with, is still running.
C16_Witness ==
    /\ pc = "run"
    /\ crashes = 0
    /\ Len(workers) = 2
    /\ Running(proc[1])
    /\ 1 \in active
    /\ Stopped(proc[2])
    /\ 2 \notin active

\* SIGINT reaches worker w in this step: sent to it alone, or by the master
\* when it is interrupted or gives the pool up.
SigintDelivered(w) ==
    \/ WorkerSigint(w)
    \/ MasterInterrupt
    \/ (pc = "run" /\ pc' = "PoolExhausted")

\* C17: a Running worker becomes Stopping only in a step that delivers
\* SIGINT to it or in a parent check that sees another parent pid than the
\* captured one; a parent check that sees the captured pid changes nothing,
\* and no worker is stopped as an orphan while the master lives.
C17_OnlyTwoTriggers ==
    /\ [][\A w \in Descriptors :
            (Running(proc[w]) /\ Stopping(proc'[w]))
               => \/ (proc'[w].trigger = "sigint" /\ SigintDelivered(w))
                  \/ (proc'[w].trigger = "orphan" /\ PeriodicCallback(w)
                        /\ getppid # proc[w].args.parent_pid)]_vars
    /\ [][\A w \in Descriptors :
            (PeriodicCallback(w) /\ getppid = proc[w].args.parent_pid)
               => proc' = proc]_vars
    /\ [](\A w \in Descriptors : proc[w].trigger = "orphan" => ~MasterAlive)

\* Under a living master one worker is Stopping after an interrupt, its
\* loop told to stop, while the other one runs on, a request in flight.
C17_Witness ==
    /\ pc = "run"
    /\ \E w, v \in Descriptors :
         /\ Stopping(proc[w])
         /\ proc[w].trigger = "sigint"
         /\ proc[w].loop_stopped
         /\ Running(proc[v])
         /\ proc[v].inflight > 0

\* C18: an init_workers call that raises (configuration error or failed
\* bind) leaves self.workers as it was; the list only grows, at its end,
\* and only by all the descriptors of one interface whose sockets the same
\* call has bound.
C18_FailedInitAppendsNothing ==
    /\ [][(pc = "init" /\ pc' \in ConfigurationErrors)
            => (workers' = workers /\ Len(proc') = Len(proc))]_vars
    /\ [][/\ Len(workers') >= Len(workers)
          /\ SubSeq(workers', 1, Len(workers)) = workers]_vars
    /\ [][workers' # workers
            => /\ pc = "init" /\ pc' = "init"
               /\ sockets[next_app] = 0 /\ sockets'[next_app] = 1
               /\ Len(workers') - Len(workers)
                    = effective_processes(Head(interfaces))
               /\ \A w \in (Len(workers) + 1)..Len(workers') :
                    workers'[w].args.tornado_app = next_app]_vars

\* The bind of the second interface failed: the descriptors of the first
\* interface are all there, and none of the second.
C18_Witness ==
    /\ pc = "BindError"
    /\ next_app = 2
    /\ sockets = <<1, 0>>
    /\ Len(workers) = effective_processes([processes |-> 0])
    /\ \A w \in Descriptors : InterfaceOf(w) = 1

\* The stop of the loop is queued again in a worker whose loop was already
\* told to stop: a further trigger has fired after the first one was served.
StoppedTwice(p) == Stopping(p) /\ p.loop_stopped /\ p.pending_stop

\* C19: a further trigger in a worker that is already Stopping (SIGINT
\* again, or the parent check seeing another parent) leaves it Stopping,
\* its server stopped, its loop and its requests as they were; a Stopping
\* worker never accepts again; it ends Stopped with a clean exit unless it
\* crashes, stays so, and it does end.
C19_IdempotentStop ==
    /\ [][\A w \in Descriptors :
            (Stopping(proc[w]) /\ (SigintDelivered(w) \/ PeriodicCallback(w)))
               => /\ Stopping(proc'[w])
                  /\ proc'[w].trigger = proc[w].trigger
                  /\ proc'[w].loop_stopped = proc[w].loop_stopped
                  /\ proc'[w].inflight = proc[w].inflight]_vars
    /\ [][\A w \in Descriptors :
            (Stopping(proc[w]) /\ Live(proc'[w]))
               => (Stopping(proc'[w]) /\ ~proc'[w].accepting)]_vars
    /\ [][\A w \in Descriptors :
            (Stopping(proc[w]) /\ Stopped(proc'[w]))
               => proc'[w].exit \in {"clean", "crash"}]_vars
    /\ [][\A w \in Descriptors :
            (Stopped(proc[w]) /\ proc[w].trigger # "none")
               => (proc[w].exit = "clean" /\ proc'[w] = proc[w])]_vars
    /\ \A w \in 1..MaxWorkers :
         (w \in Descriptors /\ StoppedTwice(proc[w]))
            ~> (w \in Descriptors /\ Stopped(proc[w])
                  /\ proc[w].exit \in {"clean", "crash"})

\* Under a living master a second SIGINT reached a worker whose loop the
\* first one had already stopped.
C19_Witness ==
    /\ pc = "run"
    /\ \E w \in Descriptors :
         /\ StoppedTwice(proc[w])
         /\ proc[w].trigger = "sigint"
         /\ ~proc[w].accepting

\* C20: a descriptor has one process handle, and a process is started for
\* a descriptor, from the descriptor's args, only when the descriptor has
\* no process or its process has exited; the descriptors are those created
\* before the run, so there are never more live processes than descriptors.
C20_OneLiveProcess ==
    /\ [](/\ Len(proc) = Len(workers)
          /\ Cardinality({w \in Descriptors : Live(proc[w])}) <= Len(workers))
    /\ [][\A w \in Descriptors :
            (proc'[w].pc = "setup" /\ proc[w].pc # "setup")
               => /\ ~Live(proc[w])
                  /\ pc' = "run"
                  /\ proc'[w].args = workers[w].args]_vars
    /\ [][\A w \in Descriptors :
            (Live(proc[w]) /\ Live(proc'[w])) => proc'[w].args = proc[w].args]_vars
    /\ [][pc # "init" => workers' = workers]_vars

\* A respawned process serves for one descriptor while the process of the
\* other descriptor has exited and was taken out of the monitored set.
C20_Witness ==
    /\ pc = "run"
    /\ respawns > 0
    /\ Len(workers) = 2
    /\ \E w, v \in Descriptors :
         /\ Running(proc[w])
         /\ Stopped(proc[v])
         /\ v \notin active
====
